---- MODULE Spec2Model ----
(***************************************************************************)
(* Retrieval pipeline of pdf-qa-app: the file-backed vector store          *)
(* (LocalJsonVectorStore), the embedding client (EmbeddingService          *)
(* generateEmbeddings / processBatch) and the character-fallback chunker   *)
(* (EmbeddingService.chunkWithCharacters).                                 *)
(*                                                                         *)
(* The specifications share this module, one per component:                *)
(*   SpecStore     - upsertMany / query on the namespace files             *)
(*   SpecEmbed     - generateEmbeddings with its per-batch retry loop      *)
(*   SpecChunk     - the sliding window of chunkWithCharacters             *)
(*   SpecChunkText - chunkText: the sentence strategy or the fallback      *)
(*   SpecAsk       - the ask route: validation, retrieval, citations       *)
(*   SpecConcurrent- two requests in processBatch on one thread            *)
(*   SpecUpload    - the upload route: chunk, embed, store                 *)
(***************************************************************************)
EXTENDS Integers, Sequences, FiniteSets, TLC

VARIABLES
    store,      \* namespace -> the namespace file under data/vectors
    lastOp,     \* the last store call: its arguments, its result
    chunks,     \* generateEmbeddings: the input chunk sequence
    i,          \* generateEmbeddings: loop index (start of the current batch)
    results,    \* generateEmbeddings: EmbeddingResult[] accumulated so far
    attempt,    \* processBatch: loop counter
    epc,        \* position of the embedding request
    err,        \* the error caught last by processBatch (or thrown out of it)
    batch,      \* processBatch: the chunks of the current batch
    batches,    \* the slices [from, to) taken by the loop so far
    waits,      \* delays slept for the current batch, in order
    calls,      \* provider calls made for the current batch
    inflight,   \* number of provider calls awaiting their response
    text,       \* chunkWithCharacters: the input text
    start,      \* chunkWithCharacters: window start
    chunkIndex, \* chunkWithCharacters: running chunk index
    tchunks,    \* chunkWithCharacters: chunks pushed so far
    cpc,        \* position of the chunker
    sentences,  \* chunkWithTokenizer: the sentences the text splits into
    sidx,       \* chunkWithTokenizer: sentences consumed by the for loop
    currentChunk,  \* chunkWithTokenizer: the accumulated chunk
    currentTokens, \* chunkWithTokenizer: its running token count
    tkIndex,    \* chunkWithTokenizer: chunkIndex
    tkChunks,   \* chunkWithTokenizer: chunks pushed so far
    tpc,        \* position of chunkWithTokenizer
    req,        \* ask: the request (credentials, body)
    qvec,       \* ask: questionEmbedding
    retrieved,  \* ask: relevantChunks
    acalls,     \* ask: the external calls made for the request, in order
    aresp,      \* ask: the response returned
    apc,        \* position of the ask handler
    rpc,        \* concurrent requests: request -> position in processBatch
    rattempt,   \* concurrent requests: request -> attempt
    rerr,       \* concurrent requests: request -> error caught last
    thread,     \* the JavaScript thread: "free" or the request holding it
    uns,        \* upload: namespace
    ubefore,    \* upload: the store when the request arrived
    uresp,      \* upload: status of the response returned
    upc         \* position of the upload handler

storeVars == <<store, lastOp>>
embedVars == <<chunks, i, results, batch, batches, attempt, epc, err, waits, calls,
               inflight>>
chunkVars == <<text, start, chunkIndex, tchunks, cpc>>
tokVars == <<sentences, sidx, currentChunk, currentTokens, tkIndex, tkChunks, tpc>>
askVars == <<req, qvec, retrieved, acalls, aresp, apc>>
concVars == <<rpc, rattempt, rerr, thread>>
upVars == <<uns, ubefore, uresp, upc>>
appVars == <<askVars, concVars, upVars>>
extVars == <<tokVars, appVars>>
vars == <<store, lastOp, chunks, i, results, batch, batches, attempt, epc, err,
          waits, calls, inflight, text, start, chunkIndex, tchunks, cpc,
          sentences, sidx, currentChunk, currentTokens, tkIndex, tkChunks, tpc,
          req, qvec, retrieved, acalls, aresp, apc, rpc, rattempt, rerr, thread,
          uns, ubefore, uresp, upc>>

\* Rest states of the components added to the three first ones
TokIdle ==
    /\ sentences = <<>>
    /\ sidx = 0
    /\ currentChunk = <<>>
    /\ currentTokens = 0
    /\ tkIndex = 0
    /\ tkChunks = <<>>
    /\ tpc = "idle"

AskIdle ==
    /\ req = [pre |-> "none", namespace |-> "", question |-> "", topK |-> 0]
    /\ qvec = <<>>
    /\ retrieved = <<>>
    /\ acalls = <<>>
    /\ aresp = [status |-> 0]
    /\ apc = "idle"

ConcIdle ==
    /\ rpc = <<>>
    /\ rattempt = <<>>
    /\ rerr = <<>>
    /\ thread = "free"

UpIdle ==
    /\ uns = ""
    /\ ubefore = <<>>
    /\ uresp = 0
    /\ upc = "idle"

AppIdle == AskIdle /\ ConcIdle /\ UpIdle

ExtIdle == TokIdle /\ AppIdle

Min(a, b) == IF a <= b THEN a ELSE b
Max(a, b) == IF a >= b THEN a ELSE b

(***************************************************************************)
(* Vector store                                                            *)
(***************************************************************************)

\* Bounds of the store model.
MaxRecords == 2
MaxItems == 2
MaxTopK == 2

Namespaces == {"ns1", "ns2"}

\* The records offered to the store. Stored embeddings all have the dimension
\* of the embedding model (here 2); a query vector may have another length.
StoredChunk ==
    { [id |-> "a", text |-> "t1", source |-> "doc.pdf", embedding |-> <<1, 0>>],
      [id |-> "a", text |-> "t2", source |-> "doc.pdf", embedding |-> <<1, 1>>],
      [id |-> "b", text |-> "t3", source |-> "doc.pdf", embedding |-> <<2, 0>>] }

\* Query vectors: a stored one, one off every stored one, one opposed to them,
\* the zero vector and one of another length.
QueryVectors == {<<1, 1>>, <<2, 1>>, <<-1, 0>>, <<0, 0>>, <<1>>}

\* topK as the ask route passes it on (route.ts line 66 rejects topK <= 0)
TopKs == 1..MaxTopK

ItemLists ==
    UNION { [1..n -> StoredChunk] : n \in 0..MaxItems }

\* The namespace file: missing, holding a JSON array of records, or unreadable.
NoFile == [state |-> "absent", data |-> <<>>]
ValidFile(d) == [state |-> "valid", data |-> d]
CorruptedFile == [state |-> "corrupt", data |-> <<>>]

Ids(data) == { data[k].id : k \in 1..Len(data) }

\* items.find(item => item.id === id): the first item of that id
Find(items, id) ==
    LET idx == { k \in 1..Len(items) : items[k].id = id }
    IN  items[CHOOSE k \in idx : \A m \in idx : k <= m]

\* upsertMany, lines 90-99: a missing or unreadable file counts as no data
ExistingData(file) ==
    IF file.state = "valid" THEN file.data ELSE <<>>

\* FinalData with the replacement of matching ids left out
FinalData_KeepExisting(existingData, items) ==
    existingData \o SelectSeq(items, LAMBDA it : it.id \notin Ids(existingData))

\* upsertMany, lines 101-109
FinalData(existingData, items) ==
    LET existingIds == Ids(existingData)
        newItems == SelectSeq(items, LAMBDA it : it.id \notin existingIds)
        updatedItems ==
            [k \in 1..Len(existingData) |->
                IF existingData[k].id \in Ids(items)
                THEN Find(items, existingData[k].id)
                ELSE existingData[k]]
    IN  updatedItems \o newItems

RECURSIVE Dot(_, _)
Dot(a, b) ==
    IF a = <<>> THEN 0 ELSE Head(a) * Head(b) + Dot(Tail(a), Tail(b))

\* cosineSimilarity: the value dot / sqrt(normA * normB), or 0 when the
\* denominator is 0, kept exactly as [num, den2] standing for num / sqrt(den2).
cosineSimilarity(a, b) ==
    LET dotProduct == Dot(a, b)
        normA == Dot(a, a)
        normB == Dot(b, b)
    IN  IF normA * normB = 0
        THEN [num |-> 0, den2 |-> 1]
        ELSE [num |-> dotProduct, den2 |-> normA * normB]

\* x < y for two similarities
SimLess(x, y) ==
    CASE x.num < 0 /\ y.num >= 0 -> TRUE
      [] x.num >= 0 /\ y.num < 0 -> FALSE
      [] x.num >= 0 /\ y.num >= 0 -> x.num * x.num * y.den2 < y.num * y.num * x.den2
      [] OTHER -> x.num * x.num * y.den2 > y.num * y.num * x.den2

\* Array.prototype.sort with (a, b) => b.similarity - a.similarity: stable,
\* descending. Insert keeps an element behind every element that is not lower.
RECURSIVE InsertDesc(_, _, _)
InsertDesc(sorted, item, embedding) ==
    IF sorted = <<>> THEN <<item>>
    ELSE IF SimLess(cosineSimilarity(embedding, Head(sorted).embedding),
                    cosineSimilarity(embedding, item.embedding))
         THEN <<item>> \o sorted
         ELSE <<Head(sorted)>> \o InsertDesc(Tail(sorted), item, embedding)

\* SortDesc with the file order kept (the sort left out)
SortDesc_Unsorted(data, embedding) == data

RECURSIVE SortDesc(_, _)
SortDesc(data, embedding) ==
    IF data = <<>> THEN <<>>
    ELSE InsertDesc(SortDesc(SubSeq(data, 1, Len(data) - 1), embedding),
                    data[Len(data)], embedding)

\* Array.prototype.slice(0, topK)
Slice(s, topK) ==
    IF topK >= 0 THEN SubSeq(s, 1, Min(topK, Len(s)))
    ELSE SubSeq(s, 1, Max(Len(s) + topK, 0))

\* QueryResult with the read failure escaping instead of being caught
QueryResult_Throws(file, embedding, topK) ==
    IF file.state # "valid" THEN [error |-> TRUE, value |-> <<>>]
    ELSE [error |-> FALSE, value |-> Slice(SortDesc(file.data, embedding), topK)]

\* query: [] for a missing or unreadable file; cosineSimilarity throws when a
\* stored vector's length differs from the query's.
QueryResult(file, embedding, topK) ==
    IF file.state # "valid" THEN [error |-> FALSE, value |-> <<>>]
    ELSE IF \E k \in 1..Len(file.data) : Len(file.data[k].embedding) # Len(embedding)
         THEN [error |-> TRUE, value |-> <<>>]
         ELSE [error |-> FALSE, value |-> Slice(SortDesc(file.data, embedding), topK)]

NoOp == [kind |-> "none", ns |-> "ns1", items |-> <<>>, embedding |-> <<>>,
         topK |-> 0, existed |-> 0, error |-> FALSE, value |-> <<>>]

StoreInit ==
    /\ store = [ns \in Namespaces |-> NoFile]
    /\ lastOp = NoOp

\* Records held by all namespace files together
RECURSIVE TotalRecords(_, _)
TotalRecords(st, nss) ==
    IF nss = {} THEN 0
    ELSE LET ns == CHOOSE n \in nss : TRUE
         IN  Len(st[ns].data) + TotalRecords(st, nss \ {ns})

\* lastOp.existed: how many of the items met an id already in the file
UpsertMany(ns, items) ==
    LET existingData == ExistingData(store[ns])
        finalData == FinalData(existingData, items)
    IN  /\ store' = [store EXCEPT ![ns] = ValidFile(finalData)]
        /\ TotalRecords(store', Namespaces) <= MaxRecords
        /\ lastOp' = [kind |-> "upsert", ns |-> ns, items |-> items,
                      embedding |-> <<>>, topK |-> 0,
                      existed |-> Cardinality({k \in 1..Len(items) :
                                                items[k].id \in Ids(existingData)}),
                      error |-> FALSE, value |-> <<>>]
        /\ UNCHANGED <<embedVars, chunkVars, extVars>>

Query(ns, embedding, topK) ==
    LET r == QueryResult(store[ns], embedding, topK)
    IN  /\ store' = store
        /\ lastOp' = [kind |-> "query", ns |-> ns, items |-> <<>>,
                      embedding |-> embedding, topK |-> topK, existed |-> 0,
                      error |-> r.error, value |-> r.value]
        /\ UNCHANGED <<embedVars, chunkVars, extVars>>

\* The file of a namespace is damaged outside the store (a write cut short,
\* a foreign edit): reading or parsing it fails from then on.
CorruptFile(ns) ==
    /\ store[ns].state = "valid"
    /\ store' = [store EXCEPT ![ns] = CorruptedFile]
    /\ lastOp' = [NoOp EXCEPT !.kind = "corrupt", !.ns = ns]
    /\ UNCHANGED <<embedVars, chunkVars, extVars>>

StoreNext ==
    \/ \E ns \in Namespaces, items \in ItemLists : UpsertMany(ns, items)
    \/ \E ns \in Namespaces, e \in QueryVectors, k \in TopKs : Query(ns, e, k)
    \/ \E ns \in Namespaces : CorruptFile(ns)

\* The components not taking part in a specification rest in these states.
StoreIdle ==
    /\ store = [ns \in Namespaces |-> NoFile]
    /\ lastOp = NoOp

EmbedIdle ==
    /\ chunks = <<>>
    /\ i = 0
    /\ results = <<>>
    /\ batch = <<>>
    /\ batches = <<>>
    /\ attempt = 0
    /\ epc = "idle"
    /\ err = [isError |-> FALSE, kind |-> "none", message |-> <<>>]
    /\ waits = <<>>
    /\ calls = 0
    /\ inflight = 0

ChunkIdle ==
    /\ text = [len |-> 0, dots |-> {}, blanks |-> {}]
    /\ start = 0
    /\ chunkIndex = 0
    /\ tchunks = <<>>
    /\ cpc = "idle"

StoreSpecInit == StoreInit /\ EmbedIdle /\ ChunkIdle /\ ExtIdle

SpecStore == StoreSpecInit /\ [][StoreNext]_vars

(***************************************************************************)
(* Properties of the vector store                                          *)
(***************************************************************************)

Sim(embedding, rec) == cosineSimilarity(embedding, rec.embedding)

\* A step that leaves lastOp.kind = "upsert" is the call upsertMany(lastOp.ns,
\* lastOp.items); the properties of upsertMany are stated on such steps.

\* C1: upserting one item whose id is already stored in the namespace puts the
\* new item in place of every record of that id, leaves the records of other
\* ids as they were, and keeps the number of records.
C1_UpsertReplaces ==
    [][(/\ lastOp'.kind = "upsert"
        /\ Len(lastOp'.items) = 1
        /\ lastOp'.items[1].id \in Ids(ExistingData(store[lastOp'.ns])))
         => LET item == lastOp'.items[1]
                before == store[lastOp'.ns].data
                after == store'[lastOp'.ns].data
            IN  /\ Len(after) = Len(before)
                /\ \E k \in 1..Len(after) : after[k] = item
                /\ \A k \in 1..Len(before) :
                     after[k] = IF before[k].id = item.id THEN item ELSE before[k]]_vars

\* A one-item upsert has just replaced a record of another text, next to a
\* record of another id.
C1_Witness ==
    /\ lastOp.kind = "upsert"
    /\ Len(lastOp.items) = 1
    /\ lastOp.existed = 1
    /\ lastOp.items[1].text = "t2"
    /\ store[lastOp.ns].data = <<lastOp.items[1],
            [id |-> "b", text |-> "t3", source |-> "doc.pdf", embedding |-> <<2, 0>>]>>

\* C2: no namespace file holds two records of the same id.
C2_UniqueIds ==
    \A ns \in Namespaces :
        \A j, k \in 1..Len(store[ns].data) :
            j # k => store[ns].data[j].id # store[ns].data[k].id

\* C3: a query that returns gives min(topK, records in the namespace) records,
\* each a distinct record of the namespace file, in an order along which the
\* similarity to the query vector never increases, and no record left out has
\* a strictly higher similarity than a returned one.
C3_QueryTopK ==
    (lastOp.kind = "query" /\ ~lastOp.error)
    => LET data == ExistingData(store[lastOp.ns])
           v == lastOp.value
           e == lastOp.embedding
       IN  /\ Len(v) = Min(lastOp.topK, Len(data))
           /\ \A k \in 1..(Len(v) - 1) : ~SimLess(Sim(e, v[k]), Sim(e, v[k + 1]))
           /\ \E f \in [1..Len(v) -> 1..Len(data)] :
                /\ \A j, k \in 1..Len(v) : j # k => f[j] # f[k]
                /\ \A k \in 1..Len(v) : data[f[k]] = v[k]
                /\ \A m \in 1..Len(data) :
                     (\A k \in 1..Len(v) : f[k] # m)
                     => \A k \in 1..Len(v) : ~SimLess(Sim(e, v[k]), Sim(e, data[m]))

\* A query for one record has passed over a record of strictly lower
\* similarity that precedes the returned one in the file.
C3_Witness ==
    /\ lastOp.kind = "query"
    /\ ~lastOp.error
    /\ lastOp.topK = 1
    /\ Len(store[lastOp.ns].data) = 2
    /\ lastOp.value = <<store[lastOp.ns].data[2]>>
    /\ SimLess(Sim(lastOp.embedding, store[lastOp.ns].data[1]),
               Sim(lastOp.embedding, store[lastOp.ns].data[2]))

\* C4: a query on a namespace whose file is missing or unreadable returns the
\* empty sequence and raises nothing, whatever the vector and topK.
C4_QueryNoData ==
    (lastOp.kind = "query" /\ store[lastOp.ns].state # "valid")
    => (~lastOp.error /\ lastOp.value = <<>>)

\* A namespace never upserted has been queried for at least one record with a
\* vector of another length, while the other namespace holds records.
C4_Witness ==
    /\ lastOp.kind = "query"
    /\ store[lastOp.ns].state = "absent"
    /\ lastOp.topK >= 1
    /\ lastOp.embedding = <<1>>
    /\ \E ns \in Namespaces : Len(store[ns].data) > 0
    /\ ~lastOp.error /\ lastOp.value = <<>>

\* The item lists that name no id twice
DistinctIds(items) ==
    \A j, k \in 1..Len(items) : j # k => items[j].id # items[k].id

\* C5 as stated: after upsertMany has stored r, a query with r's vector and
\* topK = 1 returns r, whatever else the namespace holds.
C5_RoundTrip ==
    [][(lastOp'.kind = "upsert" /\ DistinctIds(lastOp'.items))
         => \A k \in 1..Len(lastOp'.items) :
              QueryResult(store'[lastOp'.ns], lastOp'.items[k].embedding, 1).value
                  = <<lastOp'.items[k]>>]_vars

\* C5 amended: the query returns r when every other record of the namespace
\* is strictly less similar to r's vector than r is; in every case the record
\* returned is at least as similar to r's vector as r.
C5_RoundTripAmended ==
    [][(lastOp'.kind = "upsert" /\ DistinctIds(lastOp'.items))
         => \A k \in 1..Len(lastOp'.items) :
              \A r \in {lastOp'.items[k]} :
              \A q \in {QueryResult(store'[lastOp'.ns], r.embedding, 1)} :
                  /\ ~q.error
                  /\ Len(q.value) = 1
                  /\ ~SimLess(Sim(r.embedding, q.value[1]), Sim(r.embedding, r))
                  /\ (\A m \in 1..Len(store'[lastOp'.ns].data) :
                        store'[lastOp'.ns].data[m] # r
                        => SimLess(Sim(r.embedding, store'[lastOp'.ns].data[m]),
                                   Sim(r.embedding, r)))
                     => q.value = <<r>>]_vars

\* A record upserted behind a less similar one has been queried by its own
\* vector and came back first.
C5_Witness ==
    /\ lastOp.kind = "query"
    /\ lastOp.topK = 1
    /\ Len(store[lastOp.ns].data) = 2
    /\ store[lastOp.ns].data[2].embedding = lastOp.embedding
    /\ SimLess(Sim(lastOp.embedding, store[lastOp.ns].data[1]),
               Sim(lastOp.embedding, store[lastOp.ns].data[2]))
    /\ lastOp.value = <<store[lastOp.ns].data[2]>>

(***************************************************************************)
(* Embedding client                                                        *)
(***************************************************************************)

\* Bound of the embedding model: the longest chunk sequence embedded.
MaxChunks == 201

\* EmbeddingService fields and the batch limit of generateEmbeddings
maxRetries == 3
baseDelay == 1000
batchSize == 100

\* Strings are sequences of characters.
Digits == <<"0", "1", "2", "3", "4", "5", "6", "7", "8", "9">>

\* Number to string, as a template literal prints a non-negative integer
RECURSIVE Dec(_)
Dec(n) ==
    IF n < 10 THEN <<Digits[n + 1]>>
    ELSE Dec(n \div 10) \o <<Digits[(n % 10) + 1]>>

\* String.prototype.includes
Includes(s, sub) ==
    \E k \in 1..(Len(s) - Len(sub) + 1) : SubSeq(s, k, k + Len(sub) - 1) = sub

\* `Embedding count mismatch: expected ${expected}, got ${got}`
MismatchMessage(expected, got) ==
    <<"E", "m", "b", "e", "d", "d", "i", "n", "g", " ", "c", "o", "u", "n",
      "t", " ", "m", "i", "s", "m", "a", "t", "c", "h", ":", " ", "e", "x",
      "p", "e", "c", "t", "e", "d", " ">>
    \o Dec(expected) \o <<",", " ", "g", "o", "t", " ">> \o Dec(got)

\* What the provider call can throw: a rate-limit error, another API error,
\* and a value that is not an Error.
RateLimitError ==
    [isError |-> TRUE, kind |-> "provider", message |->
        <<"4", "2", "9", " ", "R", "a", "t", "e", " ", "l", "i", "m", "i",
          "t", " ", "r", "e", "a", "c", "h", "e", "d">>]
AuthError ==
    [isError |-> TRUE, kind |-> "provider", message |->
        <<"4", "0", "1", " ", "I", "n", "c", "o", "r", "r", "e", "c", "t",
          " ", "A", "P", "I", " ", "k", "e", "y">>]
ThrownValue ==
    [isError |-> FALSE, kind |-> "provider", message |-> <<"4", "2", "9">>]

ProviderErrors == {RateLimitError, AuthError, ThrownValue}

NoError == [isError |-> FALSE, kind |-> "none", message |-> <<>>]

\* The numbers of vectors a response may carry for a batch of n inputs
ReturnedCounts(n) == {n, 0, n + 1, 429}

\* error instanceof Error && error.message.includes('429')
IsRateLimit(error) ==
    error.isError /\ Includes(error.message, <<"4", "2", "9">>)

\* this.baseDelay * Math.pow(2, attempt)
RECURSIVE Pow2(_)
Pow2(n) == IF n = 0 THEN 1 ELSE 2 * Pow2(n - 1)

\* Delay without the exponential factor
Delay_Constant(att) == baseDelay

Delay(att) == baseDelay * Pow2(att)

\* CatchRetries with every error retried while attempts remain
CatchRetries_AnyError(error, att) == att # maxRetries - 1

\* The catch block of processBatch: rethrow on the last attempt, sleep on a
\* rate limit, rethrow anything else.
CatchRetries(error, att) ==
    IF att = maxRetries - 1 THEN FALSE
    ELSE IsRateLimit(error)

\* ChunkSlice as chunks.slice(from, batchSize)
ChunkSlice_FixedEnd(cs, from, to) == SubSeq(cs, from + 1, Min(batchSize, Len(cs)))

\* chunks.slice(from, to)
ChunkSlice(cs, from, to) == SubSeq(cs, from + 1, Min(to, Len(cs)))

\* The provider embeds each input text; the embedding of text t is <<t>>.
ProviderData(batch_, m) ==
    [k \in 1..m |-> [embedding |-> <<IF k <= Len(batch_) THEN batch_[k].text ELSE 0>>]]

\* response.data.map((embedding, index) => ({embedding, chunkId: chunks[index].id}))
BatchResults(batch_, data) ==
    [k \in 1..Len(data) |-> [embedding |-> data[k].embedding, chunkId |-> batch_[k].id]]

\* The chunk sequence of n chunks: ids and texts are told apart by position
InputChunks(n) ==
    [k \in 1..n |-> [id |-> 1000 + k - 1, text |-> k, tokens |-> 1]]

EmbedInit ==
    /\ \E n \in 0..MaxChunks : chunks = InputChunks(n)
    /\ i = 0
    /\ results = <<>>
    /\ batch = <<>>
    /\ batches = <<>>
    /\ attempt = 0
    /\ epc = "loop"
    /\ err = NoError
    /\ waits = <<>>
    /\ calls = 0
    /\ inflight = 0

\* generateEmbeddings, lines 321-323: the loop takes the next batch and
\* processBatch sends its first request.
StartBatch ==
    /\ epc = "loop"
    /\ i < Len(chunks)
    /\ batch' = ChunkSlice(chunks, i, i + batchSize)
    /\ batches' = Append(batches, <<i, Min(i + batchSize, Len(chunks))>>)
    /\ attempt' = 0
    /\ err' = NoError
    /\ waits' = <<>>
    /\ calls' = 1
    /\ inflight' = inflight + 1
    /\ epc' = "await"
    /\ UNCHANGED <<chunks, i, results, storeVars, chunkVars, extVars>>

\* The catch block, lines 350-363, for the error caught
Catch(error) ==
    /\ err' = error
    /\ IF CatchRetries(error, attempt)
       THEN /\ waits' = Append(waits, Delay(attempt))
            /\ epc' = "sleep"
       ELSE /\ waits' = waits
            /\ epc' = "failed"

\* The provider answers with m vectors, lines 341-348.
Respond(m) ==
    /\ epc = "await"
    /\ inflight' = inflight - 1
    /\ IF m # Len(batch)
       THEN /\ Catch([isError |-> TRUE, kind |-> "mismatch",
                      message |-> MismatchMessage(Len(batch), m)])
            /\ UNCHANGED <<i, results>>
       ELSE /\ results' = results \o BatchResults(batch, ProviderData(batch, m))
            /\ i' = i + batchSize
            /\ epc' = "loop"
            /\ UNCHANGED <<err, waits>>
    /\ UNCHANGED <<chunks, batch, batches, attempt, calls, storeVars, chunkVars, extVars>>

\* The provider call throws.
Fail(error) ==
    /\ epc = "await"
    /\ inflight' = inflight - 1
    /\ Catch(error)
    /\ UNCHANGED <<chunks, i, results, batch, batches, attempt, calls,
                   storeVars, chunkVars, extVars>>

\* The sleep ends, the loop of processBatch goes round and sends again.
Wake ==
    /\ epc = "sleep"
    /\ attempt + 1 < maxRetries
    /\ attempt' = attempt + 1
    /\ calls' = calls + 1
    /\ inflight' = inflight + 1
    /\ epc' = "await"
    /\ UNCHANGED <<chunks, i, results, batch, batches, err, waits,
                   storeVars, chunkVars, extVars>>

\* generateEmbeddings, line 327
Return ==
    /\ epc = "loop"
    /\ i >= Len(chunks)
    /\ epc' = "done"
    /\ UNCHANGED <<chunks, i, results, batch, batches, attempt, err, waits,
                   calls, inflight, storeVars, chunkVars, extVars>>

EmbedNext ==
    \/ StartBatch
    \/ \E m \in ReturnedCounts(Len(batch)) : Respond(m)
    \/ \E error \in ProviderErrors : Fail(error)
    \/ Wake
    \/ Return

EmbedSpecInit == EmbedInit /\ StoreIdle /\ ChunkIdle /\ ExtIdle

SpecEmbed == EmbedSpecInit /\ [][EmbedNext]_vars

(***************************************************************************)
(* Properties of the embedding client                                      *)
(***************************************************************************)

\* C6: for one batch the provider is called at most 3 times; the waits slept
\* are 1000 ms then 2000 ms, one before each retry; the failure of the third
\* call is thrown without a third wait or a fourth call.
C6_RateLimitBackoff ==
    /\ calls <= 3
    /\ waits \in {<<>>, <<1000>>, <<1000, 2000>>}
    /\ \A k \in 1..(Len(waits) - 1) : waits[k] < waits[k + 1]
    /\ epc = "await" => Len(waits) = calls - 1
    /\ epc = "sleep" => (Len(waits) = calls /\ calls < 3)
    /\ (epc = "failed" /\ calls = 3) => waits = <<1000, 2000>>

\* Three rate-limited failures in a row have ended the batch.
C6_Witness ==
    /\ epc = "failed"
    /\ err = RateLimitError
    /\ calls = 3
    /\ waits = <<1000, 2000>>

\* C7: once processBatch has caught a provider failure that is not classified
\* as rate-limited, the batch has failed: no wait was added for it and no call
\* follows it.
C7_OtherFailureNotRetried ==
    (err.kind = "provider" /\ ~IsRateLimit(err))
    => /\ epc = "failed"
       /\ Len(waits) = attempt
       /\ calls = attempt + 1
       /\ inflight = 0

\* A failure that is not a rate limit has ended the batch on its second
\* attempt, after one rate-limited failure.
C7_Witness ==
    /\ err = AuthError
    /\ attempt = 1
    /\ epc = "failed"
    /\ waits = <<1000>>

\* C8: once a response of the wrong number of vectors has been caught, the
\* batch has failed, none of its vectors was accepted and it is not retried.
C8_MismatchNeverRetried ==
    err.kind = "mismatch" => (epc = "failed" /\ Len(results) = i)

\* C9: provider calls are made one at a time; the loop takes the slices
\* [0,100), [100,200), ... of the input in order, each after the one before it
\* was answered in full; a call carries exactly the current slice; and on
\* return there is one result per chunk, in input order.
C9_BatchesInOrder ==
    /\ inflight <= 1
    /\ epc # "await" => inflight = 0
    /\ \A k \in 1..Len(batches) :
         batches[k] = <<100 * (k - 1), Min(100 * k, Len(chunks))>>
    /\ epc \in {"await", "sleep"} =>
         /\ Len(results) = batches[Len(batches)][1]
         /\ batch = SubSeq(chunks, batches[Len(batches)][1] + 1,
                           batches[Len(batches)][2])
         /\ Len(batch) >= 1 /\ Len(batch) <= 100
    /\ epc = "done" =>
         /\ Len(results) = Len(chunks)
         /\ \A k \in 1..Len(chunks) :
              /\ results[k].chunkId = chunks[k].id
              /\ results[k].embedding = <<chunks[k].text>>
         /\ Len(batches) * 100 >= Len(chunks)

\* 201 chunks have been embedded in three batches.
C9_Witness ==
    /\ epc = "done"
    /\ Len(chunks) = 201
    /\ batches = <<<<0, 100>>, <<100, 200>>, <<200, 201>>>>
    /\ Len(results) = 201

(***************************************************************************)
(* Character-fallback chunker                                              *)
(***************************************************************************)

\* chunkWithCharacters constants
maxChars == 3500
overlapChars == 600

\* Bound of the chunker model: the most periods a sample text holds.
MaxDots == 2

\* A text is its length, the indices of its periods and the intervals
\* <<lo, hi>> of its whitespace; every other character is a letter.
TextLens == {0, 1, 3, 700, 3500, 3501, 4200}

DotIndices == {0, 2, 3499, 3500, 3501}

DotSets(n) ==
    { X \in SUBSET { d \in DotIndices : d < n } : Cardinality(X) <= MaxDots }

Texts ==
    UNION { { [len |-> n, dots |-> D, blanks |-> {}] : D \in DotSets(n) } :
            n \in TextLens }
    \cup
    { [len |-> n, dots |-> {}, blanks |-> {<<0, n - 1>>}] : n \in TextLens \ {0} }
    \cup
    { [len |-> n, dots |-> {0}, blanks |-> {<<1, 2>>, <<n - 1, n - 1>>}] :
        n \in { m \in TextLens : m > 3 } }
    \cup
    { [len |-> n, dots |-> {}, blanks |-> {<<0, maxChars - 1>>}] :
        n \in { m \in TextLens : m > maxChars } }

IsBlank(t, k) == \E iv \in t.blanks : iv[1] <= k /\ k <= iv[2]

\* text.lastIndexOf('.', position): the last period at or before position
LastIndexOfDot(t, position) ==
    LET found == { d \in t.dots : d <= position }
    IN  IF found = {} THEN -1
        ELSE CHOOSE d \in found : \A x \in found : x <= d

\* String.prototype.trim on text.slice(from, to): the range left, <<k, k>>
\* when nothing is left
RECURSIVE TrimLeft(_, _, _)
TrimLeft(t, from, to) ==
    IF from < to /\ IsBlank(t, from)
    THEN LET iv == CHOOSE v \in t.blanks : v[1] <= from /\ from <= v[2]
         IN  TrimLeft(t, Min(iv[2] + 1, to), to)
    ELSE from

RECURSIVE TrimRight(_, _, _)
TrimRight(t, from, to) ==
    IF from < to /\ IsBlank(t, to - 1)
    THEN LET iv == CHOOSE v \in t.blanks : v[1] <= to - 1 /\ to - 1 <= v[2]
         IN  TrimRight(t, from, Max(iv[1], from))
    ELSE to

Trim(t, from, to) ==
    LET a == TrimLeft(t, from, to)
    IN  <<a, TrimRight(t, a, to)>>

\* Lines 288-296: the end of the window that starts at s
WindowEnd(t, s) ==
    LET end == Min(s + maxChars, t.len)
        lastSentenceEnd == LastIndexOfDot(t, end)
    IN  IF end < t.len /\ lastSentenceEnd > s THEN lastSentenceEnd + 1 ELSE end

\* NextStart without the one-character floor
NextStart_NoFloor(s, end) == end - overlapChars

\* Line 307
NextStart(s, end) == Max(s + 1, end - overlapChars)

\* Math.ceil(length / 3.5)
TokenEstimate(length) == (2 * length + 6) \div 7

ChunkInit ==
    /\ text \in Texts
    /\ start = 0
    /\ chunkIndex = 0
    /\ tchunks = <<>>
    /\ cpc = "loop"

\* One round of the while loop, lines 287-309. A chunk records the window
\* [from, to) it was cut from and the range its trimmed text covers.
ChunkStep ==
    /\ cpc = "loop"
    /\ start < text.len
    /\ LET end == WindowEnd(text, start)
           chunkText == Trim(text, start, end)
       IN  /\ tchunks' =
                IF chunkText[1] < chunkText[2]
                THEN Append(tchunks, [id |-> chunkIndex, from |-> start, to |-> end,
                                      text |-> chunkText,
                                      tokens |-> TokenEstimate(chunkText[2] - chunkText[1])])
                ELSE tchunks
           /\ start' = NextStart(start, end)
    /\ chunkIndex' = chunkIndex + 1
    /\ UNCHANGED <<text, cpc, storeVars, embedVars, extVars>>

\* Line 311
ChunkReturn ==
    /\ cpc = "loop"
    /\ start >= text.len
    /\ cpc' = "done"
    /\ UNCHANGED <<text, start, chunkIndex, tchunks, storeVars, embedVars, extVars>>

ChunkNext == ChunkStep \/ ChunkReturn

ChunkSpecInit == ChunkInit /\ StoreIdle /\ EmbedIdle /\ ExtIdle

SpecChunk == ChunkSpecInit /\ [][ChunkNext]_vars

\* The loop is not suspended: it runs until it returns.
SpecChunkFair == SpecChunk /\ WF_vars(ChunkNext)

(***************************************************************************)
(* Properties of the chunker                                               *)
(***************************************************************************)

\* C10: every round of the loop moves the window start forward by at least
\* one character, and the loop returns.
C10_Progress ==
    /\ [][chunkIndex' # chunkIndex => start' >= start + 1]_vars
    /\ <>(cpc = "done")

\* A text without a period has been chunked to the end, its last rounds
\* advancing one character at a time.
C10_Witness ==
    /\ cpc = "done"
    /\ text.dots = {}
    /\ text.len = 4200
    /\ chunkIndex > 600
    /\ start = text.len

\* C19: no chunk is cut from a window longer than the character ceiling:
\* end - start <= 3500, also when a period sits at the ceiling position.
C19_WindowWithinCeiling ==
    \A k \in 1..Len(tchunks) : tchunks[k].to - tchunks[k].from <= 3500

\* The text holds nothing but whitespace
AllBlankText == TrimLeft(text, 0, text.len) >= text.len

\* C21: no chunk is pushed after a chunk whose window reached the end of the
\* text: a chunk with end = text.length is the last one, so at most one chunk
\* ends there, and a text that is not blank and no longer than maxChars
\* gives exactly one chunk.
C21_NoChunkAfterEnd ==
    /\ \A k \in 1..Len(tchunks) : tchunks[k].to = text.len => k = Len(tchunks)
    /\ (cpc = "done" /\ text.len <= maxChars /\ ~AllBlankText) => Len(tchunks) = 1

(***************************************************************************)
(* Sentence chunker (chunkWithTokenizer) and chunkText                     *)
(***************************************************************************)

\* EmbeddingService fields
maxTokensPerChunk == 1000
overlapTokens == 150

\* Bound of the sentence chunker model: the most sentences of a sample text.
MaxSentences == 3

\* A sentence is its number of words (the pieces split(' ') gives) and the
\* tokens the tokenizer counts per word. text.split(/(?<=[.!?])\s+/) yields
\* sentences that hold text, then "" when the text ends in whitespace behind
\* its last punctuation mark; a text of whitespace only is one blank sentence
\* and the empty text is the one sentence "".
TextSentence ==
    { [kind |-> "text", words |-> 300, tpw |-> 2],
      [kind |-> "text", words |-> 20, tpw |-> 25],
      [kind |-> "text", words |-> 40, tpw |-> 30],
      [kind |-> "text", words |-> 10, tpw |-> 1] }

EmptySentence == [kind |-> "empty", words |-> 1, tpw |-> 0]
BlankSentence == [kind |-> "blank", words |-> 1, tpw |-> 1]

SentenceLists ==
    LET body == UNION { [1..n -> TextSentence] : n \in 1..MaxSentences }
    IN  body \cup { Append(b, EmptySentence) : b \in body }
             \cup { <<EmptySentence>>, <<BlankSentence>> }

\* tokenize(sentence).length
SentenceTokens(sentence) == sentence.words * sentence.tpw

\* The accumulated chunk is a sequence of pieces joined by single spaces: a
\* piece is the words from..to of sentence s.
WholeSentence(ss, k) == [s |-> k, from |-> 1, to |-> ss[k].words]

\* The string is '' (falsy): nothing appended yet, or only ""
StrEmpty(ss, cc) == \A k \in 1..Len(cc) : ss[cc[k].s].kind = "empty"

\* TrimEmpty that finds every accumulation empty: nothing is flushed at the end
TrimEmpty_NoFlush(ss, cc) == TRUE

\* currentChunk.trim() is '' : no piece holds text
TrimEmpty(ss, cc) == \A k \in 1..Len(cc) : ss[cc[k].s].kind # "text"

\* words.slice(-n) on currentChunk.split(' ')
RECURSIVE LastWords(_, _)
LastWords(cc, n) ==
    IF n <= 0 \/ cc = <<>> THEN <<>>
    ELSE LET last == cc[Len(cc)]
             cnt == last.to - last.from + 1
         IN  IF cnt >= n
             THEN <<[last EXCEPT !.from = last.to - n + 1]>>
             ELSE LastWords(SubSeq(cc, 1, Len(cc) - 1), n - cnt) \o <<last>>

\* Math.floor(this.overlapTokens / 4)
OverlapWords == overlapTokens \div 4

\* tokenize(currentChunk).length
RECURSIVE ChunkTokens(_, _)
ChunkTokens(ss, cc) ==
    IF cc = <<>> THEN 0
    ELSE (Head(cc).to - Head(cc).from + 1) * ss[Head(cc).s].tpw
         + ChunkTokens(ss, Tail(cc))

\* Line 244: the current chunk is closed before this sentence
ClosesChunk(ss, cc, tokens, sentence) ==
    tokens + SentenceTokens(sentence) > maxTokensPerChunk /\ ~StrEmpty(ss, cc)

TokInit ==
    /\ sentences \in SentenceLists
    /\ sidx = 0
    /\ currentChunk = <<>>
    /\ currentTokens = 0
    /\ tkIndex = 0
    /\ tkChunks = <<>>
    /\ tpc = "loop"

\* One round of the for loop, lines 241-262
TokStep ==
    /\ tpc = "loop"
    /\ sidx < Len(sentences)
    /\ sidx' = sidx + 1
    /\ IF ClosesChunk(sentences, currentChunk, currentTokens, sentences[sidx + 1])
       THEN /\ tkChunks' = Append(tkChunks, [id |-> tkIndex, text |-> currentChunk,
                                             tokens |-> currentTokens])
            /\ currentChunk' = LastWords(currentChunk, OverlapWords)
                                 \o <<WholeSentence(sentences, sidx + 1)>>
            /\ currentTokens' = ChunkTokens(sentences, currentChunk')
            /\ tkIndex' = tkIndex + 1
       ELSE /\ currentChunk' = Append(currentChunk, WholeSentence(sentences, sidx + 1))
            /\ currentTokens' = currentTokens + SentenceTokens(sentences[sidx + 1])
            /\ UNCHANGED <<tkChunks, tkIndex>>
    /\ UNCHANGED <<sentences, tpc, storeVars, embedVars, chunkVars, appVars>>

\* Lines 264-273: the final chunk and the return
TokReturn ==
    /\ tpc = "loop"
    /\ sidx = Len(sentences)
    /\ tkChunks' = IF TrimEmpty(sentences, currentChunk) THEN tkChunks
                   ELSE Append(tkChunks, [id |-> tkIndex, text |-> currentChunk,
                                          tokens |-> currentTokens])
    /\ tpc' = "done"
    /\ UNCHANGED <<sentences, sidx, currentChunk, currentTokens, tkIndex,
                   storeVars, embedVars, chunkVars, appVars>>

\* chunkText, lines 213-224: the sentence strategy when js-tiktoken loads, the
\* character fallback when it does not.
ChunkTextInit ==
    /\ StoreIdle
    /\ EmbedIdle
    /\ AppIdle
    /\ \/ TokInit /\ ChunkIdle
       \/ ChunkInit /\ TokIdle

ChunkTextNext == TokStep \/ TokReturn \/ ChunkStep \/ ChunkReturn

SpecChunkText == ChunkTextInit /\ [][ChunkTextNext]_vars

(***************************************************************************)
(* Properties of chunkText                                                 *)
(***************************************************************************)

\* C11: the ids of the chunks returned are 0, 1, ..., n-1 in output order,
\* for the sentence strategy and for the character fallback.
C11_SequentialIds ==
    /\ \A k \in 1..Len(tkChunks) : tkChunks[k].id = k - 1
    /\ \A k \in 1..Len(tchunks) : tchunks[k].id = k - 1

\* Every character of text from index a up to b (excluded) is whitespace
AllBlank(t, a, b) == TrimLeft(t, a, b) >= b

\* C12: when the chunker returns, every sentence that holds text is a whole
\* piece of some chunk (sentence strategy), and every character that is not
\* whitespace lies in the text of some chunk (character fallback): what lies
\* before the first chunk, between one chunk and the next and behind the last
\* one is whitespace.
C12_NothingDropped ==
    /\ tpc = "done" =>
         \A k \in 1..Len(sentences) :
            sentences[k].kind = "text" =>
               \E c \in 1..Len(tkChunks) :
                  \E p \in 1..Len(tkChunks[c].text) :
                     tkChunks[c].text[p] = [s |-> k, from |-> 1,
                                            to |-> sentences[k].words]
    /\ cpc = "done" =>
         IF tchunks = <<>> THEN AllBlank(text, 0, text.len)
         ELSE /\ AllBlank(text, 0, tchunks[1].text[1])
              /\ AllBlank(text, tchunks[Len(tchunks)].text[2], text.len)
              /\ \A k \in 1..(Len(tchunks) - 1) :
                    AllBlank(text, tchunks[k].text[2], tchunks[k + 1].text[1])

\* Three sentences have been chunked; the first chunk was closed in the loop,
\* the next one began with its last words and all was flushed at the end.
C12_Witness ==
    /\ tpc = "done"
    /\ Len(sentences) = 3
    /\ Len(tkChunks) >= 2
    /\ Len(tkChunks[2].text) >= 2
    /\ tkChunks[2].text[1].from > 1

(***************************************************************************)
(* Ask route: POST of src/app/api/ask/route.ts                             *)
(***************************************************************************)

\* Bound of the ask model: the longest completion text.
MaxAnswerLen == 6

\* Completion texts are sequences of characters; chunk ids of the sample
\* records are one character long.
AnswerChars == {"[", "]", "a", "b"}
Answers == UNION { [1..n -> AnswerChars] : n \in 0..MaxAnswerLen }
IdChars(id) == <<id>>

\* Lengths of the sample record texts (the third is longer than a citation)
TextLength(t) == CASE t = "t1" -> 31 [] t = "t2" -> 200 [] t = "t3" -> 201

\* Request bodies. namespace "" stands for a missing or empty namespace.
Questions ==
    { [type |-> "undefined", chars |-> <<>>],
      [type |-> "number", chars |-> <<>>],
      [type |-> "string", chars |-> <<>>],
      [type |-> "string", chars |-> <<" ", " ">>],
      [type |-> "string", chars |-> <<"q", " ">>] }

NoTopK == [given |-> FALSE, value |-> 0]
TopKValues == {NoTopK} \cup { [given |-> TRUE, value |-> v] : v \in {-1, 0, 1, 2, 20, 21} }

Requests ==
    { [pre |-> "ok", namespace |-> n, question |-> q, topK |-> k] :
        n \in {""} \cup Namespaces, q \in Questions, k \in TopKValues }
    \cup
    { [pre |-> p, namespace |-> "ns1",
       question |-> [type |-> "string", chars |-> <<"q", " ">>], topK |-> NoTopK] :
        p \in {"unauth", "nokey", "badjson"} }

\* Stores an ask may meet: nothing uploaded (one file unreadable), a namespace
\* of two records, a namespace in which two records share an id.
AskStores ==
    { [ns \in Namespaces |-> IF ns = "ns2" THEN CorruptedFile ELSE NoFile],
      [ns \in Namespaces |->
         IF ns = "ns1"
         THEN ValidFile(<<[id |-> "a", text |-> "t1", source |-> "doc.pdf", embedding |-> <<1, 0>>],
                          [id |-> "b", text |-> "t3", source |-> "doc.pdf", embedding |-> <<2, 0>>]>>)
         ELSE NoFile],
      [ns \in Namespaces |->
         IF ns = "ns1"
         THEN ValidFile(<<[id |-> "a", text |-> "t1", source |-> "doc.pdf", embedding |-> <<1, 0>>],
                          [id |-> "a", text |-> "t2", source |-> "doc.pdf", embedding |-> <<1, 1>>]>>)
         ELSE NoFile] }

\* Query embeddings the provider may return: of the stored length or not
AskVectors == {<<1, 1>>, <<1>>}

\* const { namespace, question, topK = 5 } = body
TopK(r) == IF r.topK.given THEN r.topK.value ELSE 5

\* !question
Falsy(question) ==
    question.type = "undefined" \/ (question.type = "string" /\ question.chars = <<>>)

\* question.trim().length === 0
TrimIsEmpty(chars) == \A k \in 1..Len(chars) : chars[k] = " "

\* Line 52
MissingFields(r) == r.namespace = "" \/ Falsy(r.question)

\* Line 59
QuestionInvalid(r) == r.question.type # "string" \/ TrimIsEmpty(r.question.chars)

\* TopKInvalid without the upper limit
TopKInvalid_NoUpper(topK) == topK <= 0

\* Line 66
TopKInvalid(topK) == topK <= 0 \/ topK > 20

NoMetadata == [present |-> FALSE, chunksFound |-> 0, citationsUsed |-> 0]

ErrorResponse(status, message, cause) ==
    [status |-> status, error |-> message, cause |-> cause, answer |-> <<>>,
     citations |-> <<>>, metadata |-> NoMetadata]

NoResponse == ErrorResponse(0, "", NoError)

\* Lines 24-71: the response that rejects the request, NoResponse when none does
Rejection(r) ==
    IF r.pre = "unauth" THEN ErrorResponse(401, "Unauthorized", NoError)
    ELSE IF r.pre = "nokey"
    THEN ErrorResponse(500, "OpenAI API key not configured", NoError)
    ELSE IF r.pre = "badjson"
    THEN ErrorResponse(400, "Invalid JSON in request body", NoError)
    ELSE IF MissingFields(r)
    THEN ErrorResponse(400, "Missing required fields: namespace and question", NoError)
    ELSE IF QuestionInvalid(r)
    THEN ErrorResponse(400, "Question must be a non-empty string", NoError)
    ELSE IF TopKInvalid(TopK(r))
    THEN ErrorResponse(400, "topK must be between 1 and 20", NoError)
    ELSE NoResponse

\* Lines 149-158: error instanceof Error ? error.message : 'Failed to process question'
CaughtResponse(error) ==
    ErrorResponse(500, IF error.isError THEN "error.message"
                       ELSE "Failed to process question", error)

\* cosineSimilarity: 'Vectors must have the same length'
DimensionError ==
    [isError |-> TRUE, kind |-> "store", message |->
        <<"V", "e", "c", "t", "o", "r", "s", " ", "m", "u", "s", "t", " ", "h",
          "a", "v", "e", " ", "t", "h", "e", " ", "s", "a", "m", "e", " ", "l",
          "e", "n", "g", "t", "h">>]

\* relevantChunks.length === 0 that never holds
NoRelevantChunks_Never(relevantChunks) == FALSE

\* Line 84
NoRelevantChunks(relevantChunks) == Len(relevantChunks) = 0

\* Lines 85-90
InsufficientAnswer == <<"I", " ", "d", "o", "n", "'", "t", " ", "h", "a", "v", "e">>

InsufficientResponse ==
    [status |-> 200, error |-> "", cause |-> NoError, answer |-> InsufficientAnswer,
     citations |-> <<>>, metadata |-> NoMetadata]

\* Line 127: content || 'No response generated'
NoResponseGenerated ==
    <<"N", "o", " ", "r", "e", "s", "p", "o", "n", "s", "e", " ", "g", "e", "n",
      "e", "r", "a", "t", "e", "d">>

AnswerOf(content) == IF content = <<>> THEN NoResponseGenerated ELSE content

\* Position of the first "]" of a at or behind p, 0 when there is none
RECURSIVE NextClose(_, _)
NextClose(a, p) ==
    IF p > Len(a) THEN 0
    ELSE IF a[p] = "]" THEN p
    ELSE NextClose(a, p + 1)

\* answer.match(/\[([^\]]+)\]/g) || []: the matches from position p on,
\* leftmost first, none overlapping the last
RECURSIVE Matches(_, _)
Matches(a, p) ==
    IF p > Len(a) THEN <<>>
    ELSE IF a[p] # "[" THEN Matches(a, p + 1)
    ELSE LET q == NextClose(a, p + 1)
         IN  IF q = 0 \/ q = p + 1 THEN Matches(a, p + 1)
             ELSE <<SubSeq(a, p, q)>> \o Matches(a, q + 1)

\* citationMatches.map(match => match.slice(1, -1))
CitedChunkIds(answer) ==
    LET ms == Matches(answer, 1)
    IN  [k \in 1..Len(ms) |-> SubSeq(ms[k], 2, Len(ms[k]) - 1)]

\* citedChunkIds.includes(chunk.id)
IncludesId(cited, id) == \E k \in 1..Len(cited) : cited[k] = IdChars(id)

\* chunk.text.substring(0, 200) + (chunk.text.length > 200 ? '...' : '')
CitationText(t) ==
    [of |-> t, chars |-> Min(TextLength(t), 200), ellipsis |-> TextLength(t) > 200]

\* Lines 133-138
Citations(relevantChunks, answer) ==
    LET cited == CitedChunkIds(answer)
        kept == SelectSeq(relevantChunks, LAMBDA chunk : IncludesId(cited, chunk.id))
    IN  [k \in 1..Len(kept) |-> [id |-> kept[k].id, text |-> CitationText(kept[k].text)]]

\* Lines 140-147
AnswerResponse(relevantChunks, answer) ==
    LET citations == Citations(relevantChunks, answer)
    IN  [status |-> 200, error |-> "", cause |-> NoError, answer |-> answer,
         citations |-> citations,
         metadata |-> [present |-> TRUE, chunksFound |-> Len(relevantChunks),
                       citationsUsed |-> Len(citations)]]

AskInit ==
    /\ req \in Requests
    /\ store \in AskStores
    /\ lastOp = NoOp
    /\ qvec = <<>>
    /\ retrieved = <<>>
    /\ acalls = <<>>
    /\ aresp = NoResponse
    /\ apc = "start"

\* Lines 24-76
AskValidate ==
    /\ apc = "start"
    /\ IF Rejection(req) # NoResponse
       THEN aresp' = Rejection(req) /\ apc' = "done"
       ELSE aresp' = aresp /\ apc' = "embed"
    /\ UNCHANGED <<req, qvec, retrieved, acalls, storeVars, embedVars, chunkVars,
                   tokVars, concVars, upVars>>

\* Line 79 and generateQueryEmbedding, part_001 lines 372-379: one call of the
\* provider; what it throws reaches the catch of the route.
AskEmbed ==
    /\ apc = "embed"
    /\ acalls' = Append(acalls, "embed")
    /\ \/ \E v \in AskVectors :
            qvec' = v /\ apc' = "query" /\ aresp' = aresp
       \/ \E error \in ProviderErrors :
            qvec' = qvec /\ apc' = "done" /\ aresp' = CaughtResponse(error)
    /\ UNCHANGED <<req, retrieved, storeVars, embedVars, chunkVars, tokVars,
                   concVars, upVars>>

\* Lines 82-91
AskQuery ==
    /\ apc = "query"
    /\ acalls' = Append(acalls, "query")
    /\ LET q == QueryResult(store[req.namespace], qvec, TopK(req))
       IN  IF q.error
           THEN /\ aresp' = CaughtResponse(DimensionError)
                /\ apc' = "done"
                /\ retrieved' = retrieved
           ELSE IF NoRelevantChunks(q.value)
           THEN /\ aresp' = InsufficientResponse
                /\ apc' = "done"
                /\ retrieved' = q.value
           ELSE /\ aresp' = aresp
                /\ apc' = "complete"
                /\ retrieved' = q.value
    /\ UNCHANGED <<req, qvec, storeVars, embedVars, chunkVars, tokVars, concVars,
                   upVars>>

\* Lines 117-147
AskComplete ==
    /\ apc = "complete"
    /\ acalls' = Append(acalls, "complete")
    /\ \/ \E content \in Answers :
            aresp' = AnswerResponse(retrieved, AnswerOf(content))
       \/ \E error \in ProviderErrors :
            aresp' = CaughtResponse(error)
    /\ apc' = "done"
    /\ UNCHANGED <<req, qvec, retrieved, storeVars, embedVars, chunkVars, tokVars,
                   concVars, upVars>>

AskNext == AskValidate \/ AskEmbed \/ AskQuery \/ AskComplete

AskSpecInit ==
    /\ AskInit
    /\ EmbedIdle
    /\ ChunkIdle
    /\ TokIdle
    /\ ConcIdle
    /\ UpIdle

SpecAsk == AskSpecInit /\ [][AskNext]_vars

(***************************************************************************)
(* Properties of the ask route                                             *)
(***************************************************************************)

Made(call) == \E k \in 1..Len(acalls) : acalls[k] = call

TopKOutside(r) == TopK(r) < 1 \/ TopK(r) > 20

QuestionEmpty(r) ==
    \/ r.question.type = "undefined"
    \/ r.question.type = "string" /\ \A k \in 1..Len(r.question.chars) : r.question.chars[k] = " "

QuestionGiven(r) == r.question.type = "string" /\ ~QuestionEmpty(r)

RejectedByValidation == apc = "done" /\ aresp.status = 400 /\ acalls = <<>>

\* C13: an authenticated request with a readable body whose topK is outside
\* [1, 20], or whose question is empty or whitespace only, is answered 400
\* before any external call; one with topK in [1, 20] and a non-empty
\* question is never answered 400.
C13_Validation ==
    req.pre = "ok" =>
      /\ (apc # "start" /\ (TopKOutside(req) \/ QuestionEmpty(req))) => RejectedByValidation
      /\ (~TopKOutside(req) /\ QuestionGiven(req)) => aresp.status # 400

\* C13 (amended): as C13, but the request that is never answered 400 also
\* names a namespace; a request without a namespace is answered 400 before
\* any external call.
C13_ValidationAmended ==
    req.pre = "ok" =>
      /\ (apc # "start" /\ (TopKOutside(req) \/ QuestionEmpty(req) \/ req.namespace = ""))
            => RejectedByValidation
      /\ (~TopKOutside(req) /\ QuestionGiven(req) /\ req.namespace # "")
            => aresp.status # 400

\* A request with topK = 21 and nothing else wrong has been rejected
C13_Witness ==
    /\ apc = "done"
    /\ req.pre = "ok"
    /\ req.namespace = "ns1"
    /\ QuestionGiven(req)
    /\ req.topK = [given |-> TRUE, value |-> 21]
    /\ aresp.status = 400
    /\ acalls = <<>>

\* The query of the store returned (did not throw) an empty list
QueryReturnedNone ==
    /\ apc = "done"
    /\ acalls = <<"embed", "query">>
    /\ aresp.cause # DimensionError

\* C14: when the store query returns no chunks the response is the fixed
\* insufficient-information answer with no citations and the completion
\* provider has not been called; whenever the completion provider has been
\* called, at least one chunk had been retrieved.
C14_NoChunksNoCompletion ==
    /\ QueryReturnedNone =>
         /\ aresp.status = 200
         /\ aresp.answer = InsufficientAnswer
         /\ aresp.citations = <<>>
         /\ ~Made("complete")
    /\ Made("complete") => Len(retrieved) >= 1

\* An ask on a namespace whose file cannot be read got the fixed answer
C14_Witness ==
    /\ QueryReturnedNone
    /\ req.namespace = "ns2"
    /\ store["ns2"].state = "corrupt"
    /\ aresp.answer = InsufficientAnswer

\* The bracketed tokens of an answer: what stands between a "[" and the next
\* "]" when it is not empty and no "[" stands before it since the last "]".
BracketedTokens(a) ==
    { SubSeq(a, p + 1, q - 1) :
        <<p, q>> \in { <<p, q>> \in (1..Len(a)) \X (1..Len(a)) :
                         /\ a[p] = "["
                         /\ a[q] = "]"
                         /\ q >= p + 2
                         /\ \A j \in (p + 1)..(q - 1) : a[j] # "]"
                         /\ \A j \in 1..(p - 1) :
                              a[j] = "[" => \E m \in (j + 1)..(p - 1) : a[m] = "]" } }

RetrievedIds == { retrieved[k].id : k \in 1..Len(retrieved) }

\* C15: once the completion has answered, (a) every citation of the response
\* bears the id of a retrieved chunk that is the content of a bracketed token
\* of the answer, (b) a bracketed token that is no retrieved id gives no
\* citation and the response is no error, (c) a retrieved id that is the
\* content of a bracketed token gives exactly one citation.
C15_CitationFilter ==
    (apc = "done" /\ Made("complete") /\ aresp.cause = NoError) =>
      LET tokens == BracketedTokens(aresp.answer)
          cs == aresp.citations
      IN  /\ aresp.status = 200
          /\ \A k \in 1..Len(cs) :
                cs[k].id \in RetrievedIds /\ IdChars(cs[k].id) \in tokens
          /\ \A t \in tokens :
                (\A id \in RetrievedIds : IdChars(id) # t) =>
                    \A k \in 1..Len(cs) : IdChars(cs[k].id) # t
          /\ \A id \in RetrievedIds :
                IdChars(id) \in tokens =>
                    Cardinality({ k \in 1..Len(cs) : cs[k].id = id }) = 1

\* C16: every response of status 200, the one of the no-chunks path too,
\* carries metadata: chunksFound is the number of chunks the store returned
\* and citationsUsed the number of citations of the response.
C16_MetadataAlways ==
    (apc = "done" /\ aresp.status = 200) =>
      /\ aresp.metadata.present
      /\ aresp.metadata.chunksFound = Len(retrieved)
      /\ aresp.metadata.citationsUsed = Len(aresp.citations)

\* C18: a request ends on a rate-limit failure of the query embedding call
\* only after maxRetries calls of the embedding provider.
C18_QueryEmbeddingRetried ==
    (apc = "done" /\ acalls # <<>> /\ acalls[Len(acalls)] = "embed"
       /\ IsRateLimit(aresp.cause)) =>
      Cardinality({ k \in 1..Len(acalls) : acalls[k] = "embed" }) = maxRetries

(***************************************************************************)
(* Upload route: POST of src/app/api/upload/route.ts, from the chunking on *)
(***************************************************************************)

\* Stores an upload may meet: no file, or its namespace file holding a record
\* of the first chunk id and one of another id.
UploadStores ==
    { [ns \in Namespaces |-> NoFile],
      [ns \in Namespaces |->
         IF ns = "ns1"
         THEN ValidFile(<<[id |-> 1000, text |-> 0, source |-> "old.pdf", embedding |-> <<0>>],
                          [id |-> 7, text |-> 0, source |-> "old.pdf", embedding |-> <<0>>]>>)
         ELSE NoFile] }

\* Lines 99-104
StoredChunks(embeddingResults, cs) ==
    [index \in 1..Len(embeddingResults) |->
        [id |-> embeddingResults[index].chunkId, text |-> cs[index].text,
         source |-> "doc.pdf", embedding |-> embeddingResults[index].embedding]]

\* EmbeddingsDone that also holds when generateEmbeddings threw
EmbeddingsDone_OrFailed(pc) == pc \in {"done", "failed"}

\* Line 95: await embeddingService.generateEmbeddings(chunks) has returned
EmbeddingsDone(pc) == pc = "done"

UploadInit ==
    /\ store \in UploadStores
    /\ lastOp = NoOp
    /\ uns \in Namespaces
    /\ ubefore = store
    /\ uresp = 0
    /\ upc = "chunk"

\* Lines 82-95: chunkText returns n chunks; none is answered 400, else
\* generateEmbeddings starts on them.
UploadChunk ==
    /\ upc = "chunk"
    /\ \E n \in 0..MaxChunks :
         IF n = 0
         THEN /\ uresp' = 400
              /\ upc' = "done"
              /\ UNCHANGED embedVars
         ELSE /\ chunks' = InputChunks(n)
              /\ epc' = "loop"
              /\ uresp' = uresp
              /\ upc' = "embed"
              /\ UNCHANGED <<i, results, batch, batches, attempt, err, waits,
                             calls, inflight>>
    /\ UNCHANGED <<uns, ubefore, storeVars, chunkVars, tokVars, askVars, concVars>>

\* Lines 99-123: the results are stored by upsertMany and the upload succeeds
UploadStore ==
    /\ upc = "embed"
    /\ EmbeddingsDone(epc)
    /\ store' = [store EXCEPT ![uns] =
                    ValidFile(FinalData(ExistingData(store[uns]),
                                        StoredChunks(results, chunks)))]
    /\ uresp' = 200
    /\ upc' = "done"
    /\ UNCHANGED <<lastOp, uns, ubefore, embedVars, chunkVars, tokVars, askVars,
                   concVars>>

\* Lines 125-130: what generateEmbeddings threw is answered 500
UploadFail ==
    /\ upc = "embed"
    /\ epc = "failed"
    /\ uresp' = 500
    /\ upc' = "done"
    /\ UNCHANGED <<uns, ubefore, storeVars, embedVars, chunkVars, tokVars, askVars,
                   concVars>>

UploadNext ==
    \/ UploadChunk
    \/ UploadStore
    \/ UploadFail
    \/ EmbedNext

UploadSpecInit ==
    /\ UploadInit
    /\ EmbedIdle
    /\ ChunkIdle
    /\ TokIdle
    /\ AskIdle
    /\ ConcIdle

SpecUpload == UploadSpecInit /\ [][UploadNext]_vars

\* C20: the store differs from what it was when the request arrived only
\* once every batch of the upload has succeeded and the upload has answered
\* 200; an upload that ends otherwise (no chunks, a failed batch) leaves
\* every namespace file as it was.
C20_NoPartialWrite ==
    /\ store # ubefore =>
         /\ epc = "done"
         /\ Len(results) = Len(chunks)
         /\ \A k \in 1..Len(batches) : batches[k][2] <= Len(results)
         /\ upc = "done"
         /\ uresp = 200
    /\ (upc = "done" /\ uresp # 200) => store = ubefore

\* An upload of more than one batch failed after its first batch had
\* succeeded, on a namespace that held records
C20_Witness ==
    /\ upc = "done"
    /\ uresp = 500
    /\ Len(results) = batchSize
    /\ Len(chunks) > batchSize
    /\ ubefore[uns].state = "valid"
    /\ store = ubefore

(***************************************************************************)
(* Two requests in processBatch on the one JavaScript thread               *)
(***************************************************************************)

\* Two uploads under way at once, each with its own EmbeddingService (upload
\* route line 77) and its own namespace.
ConcRequests == {"r1", "r2"}
RequestNamespace(r) == IF r = "r1" THEN "ns1" ELSE "ns2"

\* A continuation of request r can run: no other request holds the thread
ThreadFree(r) == thread = "free" \/ thread = r

\* sleep as a busy wait: the sleeping request keeps the thread
SleepThread_Busy(r) == r

\* sleep, lines 381-383, awaited on line 359: a promise resolved by a timer;
\* the request gives up the thread while it waits
SleepThread(r) == "free"

ConcInit ==
    /\ rpc = [r \in ConcRequests |-> "start"]
    /\ rattempt = [r \in ConcRequests |-> 0]
    /\ rerr = [r \in ConcRequests |-> NoError]
    /\ thread = "free"

\* Lines 334-339: the first round of the loop sends the request and awaits
RStart(r) ==
    /\ rpc[r] = "start"
    /\ ThreadFree(r)
    /\ rpc' = [rpc EXCEPT ![r] = "await"]
    /\ thread' = "free"
    /\ UNCHANGED <<rattempt, rerr, storeVars, embedVars, chunkVars, tokVars,
                   askVars, upVars>>

\* Lines 341-348: the response holds one vector per chunk
RRespond(r) ==
    /\ rpc[r] = "await"
    /\ ThreadFree(r)
    /\ rpc' = [rpc EXCEPT ![r] = "done"]
    /\ thread' = "free"
    /\ UNCHANGED <<rattempt, rerr, storeVars, embedVars, chunkVars, tokVars,
                   askVars, upVars>>

\* Lines 350-363: the call threw (or the count check did); the request sleeps
\* before its next attempt or throws
RFail(r, error) ==
    /\ rpc[r] = "await"
    /\ ThreadFree(r)
    /\ rerr' = [rerr EXCEPT ![r] = error]
    /\ IF CatchRetries(error, rattempt[r])
       THEN /\ rpc' = [rpc EXCEPT ![r] = "sleep"]
            /\ thread' = SleepThread(r)
       ELSE /\ rpc' = [rpc EXCEPT ![r] = "failed"]
            /\ thread' = "free"
    /\ UNCHANGED <<rattempt, storeVars, embedVars, chunkVars, tokVars, askVars,
                   upVars>>

\* The timer fires: the loop goes round and sends again
RWake(r) ==
    /\ rpc[r] = "sleep"
    /\ ThreadFree(r)
    /\ rattempt[r] + 1 < maxRetries
    /\ rattempt' = [rattempt EXCEPT ![r] = rattempt[r] + 1]
    /\ rpc' = [rpc EXCEPT ![r] = "await"]
    /\ thread' = "free"
    /\ UNCHANGED <<rerr, storeVars, embedVars, chunkVars, tokVars, askVars, upVars>>

ConcErrors ==
    ProviderErrors \cup
    { [isError |-> TRUE, kind |-> "mismatch", message |-> MismatchMessage(1, 0)] }

RequestStep(r) ==
    \/ RStart(r)
    \/ RRespond(r)
    \/ \E error \in ConcErrors : RFail(r, error)
    \/ RWake(r)

ConcNext == \E r \in ConcRequests : RequestStep(r)

ConcSpecInit ==
    /\ ConcInit
    /\ StoreIdle
    /\ EmbedIdle
    /\ ChunkIdle
    /\ TokIdle
    /\ AskIdle
    /\ UpIdle

SpecConcurrent == ConcSpecInit /\ [][ConcNext]_vars

\* The provider answers and the event loop runs what is ready for request r2;
\* nothing is assumed of request r1, which may stay in its backoff for ever.
SpecConcurrentFair == SpecConcurrent /\ WF_vars(RequestStep("r2"))

Finished(r) == rpc[r] \in {"done", "failed"}

\* C17: while a request sleeps in its backoff, the step the other request is
\* at is enabled (its first call, the handling of the provider's answer or
\* failure, its own wake-up), whatever the attempt of the sleeper; and the
\* other request ends, even if the sleeper never wakes.
C17_BackoffDoesNotBlock ==
    /\ [](\A r1 \in ConcRequests : \A r2 \in ConcRequests \ {r1} :
            rpc[r1] = "sleep" =>
              /\ rpc[r2] = "start" => ENABLED RStart(r2)
              /\ rpc[r2] = "await" =>
                    /\ ENABLED RRespond(r2)
                    /\ \A error \in ConcErrors : ENABLED RFail(r2, error)
              /\ rpc[r2] = "sleep" => ENABLED RWake(r2))
    /\ <>Finished("r2")

\* Request r2 has ended while r1 was in the backoff of its first attempt
C17_Witness ==
    /\ rpc["r1"] = "sleep"
    /\ rattempt["r1"] = 0
    /\ rpc["r2"] = "done"
    /\ rattempt["r2"] = 1

====
